---- MODULE Spec2Model ----
(***************************************************************************)
(* Model of src/Try.py: the simply supported beam stress viewer.           *)
(*                                                                         *)
(* State: the values of the Qt input controls of BeamStressApp, and what   *)
(* the last run of update_plot computed and wrote to the results label.    *)
(* Operations: the user editing one control, and update_plot (the button   *)
(* handler, also run once at the end of __init__).                         *)
(*                                                                         *)
(* Numbers.  Python floats are modelled by exact decimal rationals         *)
(* <<n, d, e>> = (n / d) * 10^e, so every equality below is an equality of *)
(* real numbers; IEEE rounding is not modelled.  Division of a numpy array *)
(* by 0.0 does not raise: it yields inf or nan, modelled by Inf and NaN.   *)
(*                                                                         *)
(* Controls.  A QDoubleSpinBox has 2 decimals unless setDecimals is        *)
(* called, and src/Try.py never calls it.  Its value, and the bounds given *)
(* to setRange, are rounded to that many decimals, so a control value is   *)
(* a multiple of 0.01 here, and the lower range bound 0.001 of lines 55, 56 *)
(* and 59 is in effect the rounded bound 0.00.                             *)
(***************************************************************************)
EXTENDS Integers, Sequences, FiniteSets, TLC

VARIABLES
    L, P, a, w,          \* values of the spin boxes of lines 50-53 (m, kN, m, kN/m)
    b, h,                \* values of the spin boxes of lines 55-56 (m)
    npts,                \* value of the QSpinBox of line 58
    tube_r,              \* value of the spin box of line 59 (m)
    show_deformed,       \* state of the check box of lines 61-62
    def_scale,           \* value of the spin box of lines 64-66
    RA, RB,              \* reactions of the last run of update_plot (N)
    x, M,                \* sampled positions (m) and moments (N m) of the last run
    sigma_mpa,           \* stress profile of the last run (MPa)
    max_sigma,           \* float(np.max(sigma_mpa)) of the last run
    lbl_results,         \* the three numbers shown by the results label
    call,                \* arguments the last run passed to compute_reactions
    divisors,            \* the divisors the last run divided by
    dirty,               \* a control was edited since the last run of update_plot
    edits                \* number of edits made by the user so far

controls == <<L, P, a, w, b, h, npts, tube_r, show_deformed, def_scale>>
results == <<RA, RB, x, M, sigma_mpa, max_sigma, lbl_results, call, divisors>>
vars == <<controls, results, dirty, edits>>

-----------------------------------------------------------------------------
(* Bounds of the model. *)

\* The user makes at most this many edits in a session.
MaxEdits == 2

\* The longest moment profile the stress computation is tried on by itself.
MaxProfileLen == 3

-----------------------------------------------------------------------------
(* Exact decimal rationals standing for Python floats. *)

Abs(n) == IF n < 0 THEN -n ELSE n

RECURSIVE GCD(_, _)
GCD(m, n) == IF n = 0 THEN m ELSE GCD(n, m % n)

RECURSIVE Pow10(_)
Pow10(k) == IF k = 0 THEN 1 ELSE 10 * Pow10(k - 1)

\* Canonical form: d > 0 has no factor 2 or 5, n has no factor 10, gcd(n, d) = 1.
RECURSIVE Pull(_, _, _)
Pull(n, d, e) ==
    IF d % 10 = 0 THEN Pull(n, d \div 10, e - 1)
    ELSE IF d % 2 = 0 THEN Pull(n * 5, d \div 2, e - 1)
    ELSE IF d % 5 = 0 THEN Pull(n * 2, d \div 5, e - 1)
    ELSE IF n % 10 = 0 THEN Pull(n \div 10, d, e + 1)
    ELSE <<n, d, e>>

Zero == <<0, 1, 0>>
Inf == <<1, 0, 0>>
NaN == <<0, 0, 0>>

IsFinite(p) == p[2] # 0

Norm(n, d, e) ==
    IF n = 0 THEN Zero
    ELSE LET g == GCD(Abs(n), d) IN Pull(n \div g, d \div g, e)

\* The float of an integer, and of a decimal literal n * 10^e.
Q(n) == Norm(n, 1, 0)
Dec(n, e) == Norm(n, 1, e)

Neg(p) == <<-p[1], p[2], p[3]>>

Add(p, q) ==
    IF p[1] = 0 THEN q
    ELSE IF q[1] = 0 THEN p
    ELSE LET e == IF p[3] < q[3] THEN p[3] ELSE q[3]
             g == GCD(p[2], q[2])
         IN Norm(p[1] * Pow10(p[3] - e) * (q[2] \div g)
                     + q[1] * Pow10(q[3] - e) * (p[2] \div g),
                 (p[2] \div g) * q[2], e)

Sub(p, q) == Add(p, Neg(q))

Mul(p, q) ==
    IF q[1] = 0 \/ p[1] = 0 THEN Zero
    ELSE LET g1 == GCD(Abs(p[1]), q[2])
             g2 == GCD(Abs(q[1]), p[2])
         IN Pull((p[1] \div g1) * (q[1] \div g2),
                 (p[2] \div g2) * (q[2] \div g1), p[3] + q[3])

\* p / q for q # 0.
Div(p, q) ==
    Mul(p, IF q[1] < 0 THEN Norm(-q[2], -q[1], -q[3]) ELSE Norm(q[2], q[1], -q[3]))

Sign(p) == IF p[1] > 0 THEN 1 ELSE IF p[1] < 0 THEN -1 ELSE 0

\* The numerator of q - p over the least common denominator: its sign is the
\* sign of q - p.
DiffNum(q, p) ==
    IF p[1] = 0 \/ q[1] = 0 \/ (p[2] = q[2] /\ p[3] = q[3]) THEN q[1] - p[1]
    ELSE LET e == IF p[3] < q[3] THEN p[3] ELSE q[3]
             g == GCD(p[2], q[2])
         IN q[1] * Pow10(q[3] - e) * (p[2] \div g)
                - p[1] * Pow10(p[3] - e) * (q[2] \div g)

Leq(p, q) == DiffNum(q, p) >= 0
Lt(p, q) == DiffNum(q, p) > 0

AbsQ(p) == <<Abs(p[1]), p[2], p[3]>>

-----------------------------------------------------------------------------
(* The Qt input controls: QDoubleSpinBox and QSpinBox. *)

\* Number of decimals of a QDoubleSpinBox on which setDecimals was not called.
Decimals == 2

\* floor((q + r / d) * 10^k) for 0 <= r < d, by long division.
RECURSIVE FloorTimesPow10(_, _, _, _)
FloorTimesPow10(q, r, d, k) ==
    IF k = 0 THEN q
    ELSE FloorTimesPow10(q * 10 + (r * 10) \div d, (r * 10) % d, d, k - 1)

\* floor(n / 10^k) for n >= 0.
RECURSIVE FloorOverPow10(_, _)
FloorOverPow10(n, k) == IF k = 0 \/ n = 0 THEN n ELSE FloorOverPow10(n \div 10, k - 1)

\* floor of a rational p >= 0.
FloorQ(p) ==
    IF p[3] >= 0 THEN FloorTimesPow10(p[1] \div p[2], p[1] % p[2], p[2], p[3])
    ELSE FloorOverPow10(p[1] \div p[2], -p[3])

\* QDoubleSpinBoxPrivate::round: the value printed with Decimals decimals and read
\* back.  A value that has no more decimals than that is unchanged.
RoundDecimals(v) ==
    IF v[2] = 1 /\ v[3] >= -Decimals THEN v
    ELSE Dec(FloorQ(Add(Mul(v, Dec(1, Decimals)), Dec(5, -1))), -Decimals)

\* p <= 10^k, for p >= 0 (10^k itself may exceed the integers of the model checker).
LeqPow10(p, k) ==
    IF p[1] = 0 THEN TRUE
    ELSE IF p[3] >= k
         THEN p[3] - k <= 9 /\ p[1] * Pow10(p[3] - k) <= p[2]
         ELSE k - p[3] > 9 \/ p[1] <= p[2] * Pow10(k - p[3])

\* setRange(lo, 10^hiExp): both bounds are rounded to the decimals of the box.
SpinRange(lo, hiExp) == [lo |-> RoundDecimals(lo), hiExp |-> hiExp]

\* setValue(v) on a QDoubleSpinBox of range r: v rounded, then bounded by the range.
SetValue(r, v) ==
    LET rv == RoundDecimals(v)
    IN IF Lt(rv, r.lo) THEN r.lo
       ELSE IF ~LeqPow10(rv, r.hiExp) THEN Dec(1, r.hiExp)
       ELSE rv

LRange == SpinRange(Dec(1, -1), 6)
PRange == SpinRange(Zero, 9)
aRange == SpinRange(Zero, 6)
wRange == SpinRange(Zero, 9)
bRange == SpinRange(Dec(1, -3), 3)
hRange == SpinRange(Dec(1, -3), 3)
tube_rRange == SpinRange(Dec(1, -3), 1)
def_scaleRange == SpinRange(Zero, 6)
NptsMin == 50
NptsMax == 5000

\* The values set by __init__.
LDefault == SetValue(LRange, Dec(60, -1))
PDefault == SetValue(PRange, Dec(200, -1))
aDefault == SetValue(aRange, Dec(30, -1))
wDefault == SetValue(wRange, Dec(50, -1))
bDefault == SetValue(bRange, Dec(25, -2))
hDefault == SetValue(hRange, Dec(45, -2))
NptsDefault == 400
tube_rDefault == SetValue(tube_rRange, Dec(6, -2))
def_scaleDefault == SetValue(def_scaleRange, Dec(500, -1))

\* The values the user enters in the model: the least value each box accepts, its
\* default, and for the load position a value beyond the spans.
LVals == {LRange.lo, LDefault}
PVals == {PRange.lo, PDefault}
aVals == {aRange.lo, aDefault, Dec(700, -2)}
wVals == {wRange.lo, wDefault}
bVals == {bRange.lo, bDefault}
hVals == {hRange.lo, hDefault}
nptsVals == {NptsMin, NptsDefault}
tube_rVals == {tube_rRange.lo, tube_rDefault}
def_scaleVals == {def_scaleRange.lo, def_scaleDefault}

-----------------------------------------------------------------------------
(* The structural functions. *)

\* compute_reactions with RA taken from the point load alone.
compute_reactions_NoUdl(vL, vP, va, vw) ==
    LET total_udl == Mul(vw, vL)
        rb == Div(Add(Mul(vP, va), Mul(total_udl, Div(vL, Q(2)))), vL)
        ra == Sub(vP, rb)
    IN <<ra, rb>>

\* compute_reactions(L, P, a, w), lines 10-15.  L is a Python float: L = 0 would
\* raise ZeroDivisionError; the callers below never pass it.
compute_reactions(vL, vP, va, vw) ==
    LET total_udl == Mul(vw, vL)
        rb == Div(Add(Mul(vP, va), Mul(total_udl, Div(vL, Q(2)))), vL)
        ra == Sub(Add(vP, total_udl), rb)
    IN <<ra, rb>>

\* The unit step H of line 24, for one position.
Step(xi, va) == IF Leq(va, xi) THEN Q(1) ELSE Zero

\* M of line 25 with the distributed load term w * x**2, not halved.
MomentAt_NoHalf(xi, vRA, vP, va, vw) ==
    Sub(Sub(Mul(vRA, xi), Mul(vw, Mul(xi, xi))),
        Mul(Mul(vP, Sub(xi, va)), Step(xi, va)))

\* M of line 25 for one position xi.
MomentAt(xi, vRA, vP, va, vw) ==
    Sub(Sub(Mul(vRA, xi), Div(Mul(vw, Mul(xi, xi)), Q(2))),
        Mul(Mul(vP, Sub(xi, va)), Step(xi, va)))

\* moment_along_beam(x, L, RA, P, a, w), lines 18-26, element-wise over xs.
moment_along_beam(xs, vL, vRA, vP, va, vw) ==
    [i \in 1..Len(xs) |-> MomentAt(xs[i], vRA, vP, va, vw)] \o <<>>

\* np.linspace with the multiples of the step counted from 1, not from 0.
linspace_FromOne(start, stop, n) ==
    LET step == Div(Sub(stop, start), Q(n - 1))
    IN [i \in 1..n |-> IF i = n THEN stop ELSE Add(Mul(Q(i), step), start)] \o <<>>

\* np.linspace(start, stop, n) for n >= 2: arange(n) * step + start with the last
\* element set to stop.
linspace(start, stop, n) ==
    LET step == Div(Sub(stop, start), Q(n - 1))
    IN [i \in 1..n |-> IF i = n THEN stop ELSE Add(Mul(Q(i - 1), step), start)] \o <<>>

\* Division of an element of a numpy array by a float: a zero divisor gives inf or
\* nan (with a RuntimeWarning), inf and nan propagate.
NpDiv(p, q) ==
    IF ~IsFinite(p) THEN p
    ELSE IF q[1] = 0 THEN (IF p[1] = 0 THEN NaN ELSE Inf)
    ELSE Div(p, q)

\* The larger of two array elements for np.max: nan wins, then inf.
NpMax2(p, q) ==
    IF p = NaN \/ q = NaN THEN NaN
    ELSE IF p = Inf \/ q = Inf THEN Inf
    ELSE IF Leq(p, q) THEN q ELSE p

\* np.max of the elements lo..hi of an array (the order of a maximum reduction
\* does not change its result).
RECURSIVE NpMaxRange(_, _, _)
NpMaxRange(s, lo, hi) ==
    IF lo = hi THEN s[lo]
    ELSE LET mid == (lo + hi) \div 2
         IN NpMax2(NpMaxRange(s, lo, mid), NpMaxRange(s, mid + 1, hi))

\* np.max of a non-empty array.
NpMax(s) == NpMaxRange(s, 1, Len(s))

\* I = b * h**3 / 12.0 and c = h / 2.0, lines 128-129.
SecondMoment(vb, vh) == Div(Mul(vb, Mul(Mul(vh, vh), vh)), Q(12))
FibreDistance(vh) == Div(vh, Q(2))

\* sigma_mpa with np.abs left out.
StressAt_NoAbs(m, c, I) == NpDiv(NpDiv(Mul(m, c), I), Dec(1, 6))

\* sigma_mpa of lines 137-138 for one moment value.
StressAt(m, c, I) == NpDiv(NpDiv(Mul(AbsQ(m), c), I), Dec(1, 6))

\* sigma_mpa of lines 137-138, element-wise over the moment profile.
StressProfile(ms, c, I) == [i \in 1..Len(ms) |-> StressAt(ms[i], c, I)] \o <<>>

\* "{v:.3f}": v rounded to 3 decimals, a value half-way between two of them to the
\* even one (Python rounds the float correctly; the float nearest to a half-way
\* decimal is taken to be that decimal).  inf and nan print as such.  The result
\* is the number printed.
Format3f(v) ==
    IF ~IsFinite(v) THEN v
    ELSE LET t2 == Mul(Mul(AbsQ(v), Dec(1, 3)), Q(2))
             f2 == FloorQ(t2)
             f == f2 \div 2
             mag == IF f2 % 2 = 0 THEN f
                    ELSE IF t2[2] = 1 /\ t2[3] >= 0 THEN f + (f % 2)
                    ELSE f + 1
         IN Dec(Sign(v) * mag, -3)

-----------------------------------------------------------------------------
(* update_plot and the edits of the user. *)

\* The load position with an a beyond the span reset to 0, not to L.
ClampA_ToZero(va, vL) == IF Lt(vL, va) THEN Zero ELSE va

\* The load position clamped only when it is more than 1 m beyond the span.
ClampA_Slack(va, vL) == IF Lt(Add(vL, Q(1)), va) THEN vL ELSE va

\* The load position update_plot uses, lines 119-120.
ClampA(va, vL) == IF Lt(vL, va) THEN vL ELSE va

\* The a control left alone, line 121 missing.
NewA_Keep(va, vL) == va

\* The a control set to L in every run, the test of line 119 missing.
NewA_Always(va, vL) == SetValue(aRange, vL)

\* The value update_plot leaves in the a control, lines 119 and 121.
NewA(va, vL) == IF Lt(vL, va) THEN SetValue(aRange, vL) ELSE va

\* The divisor of line 147, if the division is made: lines 144-146.
DeflectionDivisor(vshow, ms) ==
    IF vshow
    THEN LET maxM == NpMax([i \in 1..Len(ms) |-> AbsQ(ms[i])] \o <<>>)
         IN IF Lt(Zero, maxM) THEN <<maxM>> ELSE <<>>
    ELSE <<>>

\* Lines 123-147 and 186-191 of update_plot: what it computes from the values read
\* from the controls (va already clamped) and writes to the results label.
Recompute(vL, vPkN, va, vwkN, vb, vh, vn, vshow, oCall, oRA, oRB, ox, oM, oSigma, oMax, oLbl, oDiv) ==
    /\ oCall = [L |-> vL, P |-> Mul(vPkN, Dec(1, 3)), a |-> va, w |-> Mul(vwkN, Dec(1, 3))]
    /\ oRA = compute_reactions(oCall.L, oCall.P, oCall.a, oCall.w)[1]
    /\ oRB = compute_reactions(oCall.L, oCall.P, oCall.a, oCall.w)[2]
    /\ ox = linspace(Zero, vL, vn)
    /\ oM = moment_along_beam(ox, vL, oRA, oCall.P, oCall.a, oCall.w)
    /\ oSigma = StressProfile(oM, FibreDistance(vh), SecondMoment(vb, vh))
    /\ oMax = NpMax(oSigma)
    /\ oDiv = [L |-> oCall.L, I |-> SecondMoment(vb, vh),
               maxM |-> DeflectionDivisor(vshow, oM)]
    /\ oLbl = <<Format3f(Div(oRA, Dec(1, 3))), Format3f(Div(oRB, Dec(1, 3))),
                Format3f(oMax)>>

\* update_plot, lines 106-194.  The plotter calls (lines 107, 149-184, 193-194)
\* draw the scene and change nothing modelled here.
update_plot ==
    /\ a' = NewA(a, L)
    /\ UNCHANGED <<L, P, w, b, h, npts, tube_r, show_deformed, def_scale>>
    /\ Recompute(L, P, ClampA(a, L), w, b, h, npts, show_deformed,
                 call', RA', RB', x', M', sigma_mpa', max_sigma', lbl_results', divisors')
    /\ dirty' = FALSE
    /\ UNCHANGED edits

\* The user changes the value of one control.
Edited ==
    /\ edits < MaxEdits
    /\ edits' = edits + 1
    /\ dirty' = TRUE
    /\ UNCHANGED results

EditL(v) ==
    /\ SetValue(LRange, v) # L
    /\ L' = SetValue(LRange, v)
    /\ Edited
    /\ UNCHANGED <<P, a, w, b, h, npts, tube_r, show_deformed, def_scale>>

EditP(v) ==
    /\ SetValue(PRange, v) # P
    /\ P' = SetValue(PRange, v)
    /\ Edited
    /\ UNCHANGED <<L, a, w, b, h, npts, tube_r, show_deformed, def_scale>>

EditA(v) ==
    /\ SetValue(aRange, v) # a
    /\ a' = SetValue(aRange, v)
    /\ Edited
    /\ UNCHANGED <<L, P, w, b, h, npts, tube_r, show_deformed, def_scale>>

EditW(v) ==
    /\ SetValue(wRange, v) # w
    /\ w' = SetValue(wRange, v)
    /\ Edited
    /\ UNCHANGED <<L, P, a, b, h, npts, tube_r, show_deformed, def_scale>>

EditB(v) ==
    /\ SetValue(bRange, v) # b
    /\ b' = SetValue(bRange, v)
    /\ Edited
    /\ UNCHANGED <<L, P, a, w, h, npts, tube_r, show_deformed, def_scale>>

EditH(v) ==
    /\ SetValue(hRange, v) # h
    /\ h' = SetValue(hRange, v)
    /\ Edited
    /\ UNCHANGED <<L, P, a, w, b, npts, tube_r, show_deformed, def_scale>>

EditNpts(v) ==
    /\ NptsMin <= v /\ v <= NptsMax
    /\ v # npts
    /\ npts' = v
    /\ Edited
    /\ UNCHANGED <<L, P, a, w, b, h, tube_r, show_deformed, def_scale>>

EditTubeR(v) ==
    /\ SetValue(tube_rRange, v) # tube_r
    /\ tube_r' = SetValue(tube_rRange, v)
    /\ Edited
    /\ UNCHANGED <<L, P, a, w, b, h, npts, show_deformed, def_scale>>

ToggleShowDeformed ==
    /\ show_deformed' = ~show_deformed
    /\ Edited
    /\ UNCHANGED <<L, P, a, w, b, h, npts, tube_r, def_scale>>

EditDefScale(v) ==
    /\ SetValue(def_scaleRange, v) # def_scale
    /\ def_scale' = SetValue(def_scaleRange, v)
    /\ Edited
    /\ UNCHANGED <<L, P, a, w, b, h, npts, tube_r, show_deformed>>

\* The state __init__ leaves: the controls at their defaults (lines 50-66) and the
\* results of the run of update_plot of line 102.
Init ==
    /\ L = LDefault /\ P = PDefault /\ a = aDefault /\ w = wDefault
    /\ b = bDefault /\ h = hDefault /\ npts = NptsDefault
    /\ tube_r = tube_rDefault /\ show_deformed = TRUE /\ def_scale = def_scaleDefault
    /\ Recompute(L, P, ClampA(a, L), w, b, h, npts, show_deformed,
                 call, RA, RB, x, M, sigma_mpa, max_sigma, lbl_results, divisors)
    /\ dirty = FALSE
    /\ edits = 0

Next ==
    \/ \E v \in LVals : EditL(v)
    \/ \E v \in PVals : EditP(v)
    \/ \E v \in aVals : EditA(v)
    \/ \E v \in wVals : EditW(v)
    \/ \E v \in bVals : EditB(v)
    \/ \E v \in hVals : EditH(v)
    \/ \E v \in nptsVals : EditNpts(v)
    \/ \E v \in tube_rVals : EditTubeR(v)
    \/ ToggleShowDeformed
    \/ \E v \in def_scaleVals : EditDefScale(v)
    \/ update_plot

Spec == Init /\ [][Next]_vars

-----------------------------------------------------------------------------
(* The stress computation of lines 127-140 by itself, on any moment profile:  *)
(* update_plot only ever passes it the moments of a beam loaded downwards,    *)
(* which are never negative.                                                  *)

\* Moments the stress computation is tried on (N m): hogging, none, sagging.
MomentVals == {Neg(Dec(525, 2)), Zero, Dec(25, 3)}

\* Widths and depths it is tried on (m): degenerate, the default, and 1 m.
bSections == bVals \cup {SetValue(bRange, Q(1))}
hSections == hVals \cup {SetValue(hRange, Q(1))}

\* A section and a moment profile, and no stress computed yet.
InitStress ==
    /\ L = LDefault /\ P = PDefault /\ a = aDefault /\ w = wDefault
    /\ b \in bSections /\ h \in hSections
    /\ npts = NptsDefault /\ tube_r = tube_rDefault
    /\ show_deformed = TRUE /\ def_scale = def_scaleDefault
    /\ call = [L |-> L, P |-> Mul(P, Dec(1, 3)), a |-> a, w |-> Mul(w, Dec(1, 3))]
    /\ RA = Zero /\ RB = Zero /\ x = <<>>
    /\ M \in UNION {[1..k -> MomentVals] : k \in 1..MaxProfileLen}
    /\ sigma_mpa = <<>> /\ max_sigma = Zero /\ lbl_results = <<>>
    /\ divisors = [L |-> L, I |-> SecondMoment(b, h), maxM |-> <<>>]
    /\ dirty = TRUE
    /\ edits = 0

\* Lines 127-140 applied to the section and the moment profile.
ComputeStress ==
    /\ dirty
    /\ sigma_mpa' = StressProfile(M, FibreDistance(h), SecondMoment(b, h))
    /\ max_sigma' = NpMax(sigma_mpa')
    /\ dirty' = FALSE
    /\ UNCHANGED <<controls, RA, RB, x, M, lbl_results, call, divisors, edits>>

SpecStress == InitStress /\ [][ComputeStress]_vars

-----------------------------------------------------------------------------
(* The claims.  After a run of update_plot, and until the next edit, dirty is  *)
(* FALSE; a step that ends with dirty FALSE and changes a variable is a run of *)
(* update_plot.                                                                *)

\* The load the last run put on the beam: P + w * L.
TotalLoad == Add(call.P, Mul(call.w, call.L))

\* C1: the reactions compute_reactions returned for the last run carry the whole
\* load: RA + RB = P + w * L.
C1_Equilibrium == Add(RA, RB) = TotalLoad

\* A run with a point load off midspan and a distributed load: RA # RB.
C1_Witness ==
    /\ ~dirty /\ edits > 0
    /\ RA # RB /\ Lt(Zero, call.P) /\ Lt(Zero, call.w)

\* C2: the moment profile of the last run is 0 at both supports, x = 0 and x = L.
C2_MomentZeroAtSupports ==
    /\ x[1] = Zero /\ M[1] = Zero
    /\ x[Len(x)] = call.L /\ M[Len(M)] = Zero

\* A run with the point load on the support B, where the unit step switches at L.
C2_Witness ==
    /\ ~dirty /\ call.a = call.L /\ Lt(Zero, call.P)
    /\ \E i \in 1..Len(M) : M[i] # Zero

\* C3: every run of update_plot passes to compute_reactions and
\* moment_along_beam the span it read and a load position in [0, L], which is L
\* when the a control held more than L, and leaves the a control at most L.
C3_ClampedBeforeUse ==
    [][~dirty' => /\ call'.L = L
                  /\ call'.a = (IF Lt(L, a) THEN L ELSE a)
                  /\ Leq(Zero, call'.a) /\ Leq(call'.a, call'.L)
                  /\ Leq(a', L')]_vars

\* A run made after the span was lowered below the load position.
C3_Witness ==
    /\ ~dirty /\ L = LRange.lo /\ Lt(L, aDefault)
    /\ a = L /\ call.a = L

\* C4: with a degenerate section (I = 0) the run produces no stress profile and
\* no infinite or undefined stress.
C4_InvalidSectionRaised ==
    (~dirty /\ ~Lt(Zero, divisors.I)) =>
        /\ sigma_mpa = <<>>
        /\ IsFinite(max_sigma)
        /\ IsFinite(lbl_results[3])

\* C5: with I > 0 every sample of the stress profile computed from a moment
\* profile is >= 0, and the reported maximum is >= 0 and is the largest sample.
C5_StressNonNegative ==
    (~dirty /\ Lt(Zero, divisors.I)) =>
        /\ Len(sigma_mpa) = Len(M)
        /\ \A i \in 1..Len(sigma_mpa) :
              /\ IsFinite(sigma_mpa[i])
              /\ Leq(Zero, sigma_mpa[i])
              /\ Leq(sigma_mpa[i], max_sigma)
        /\ \E i \in 1..Len(sigma_mpa) : sigma_mpa[i] = max_sigma
        /\ Leq(Zero, max_sigma)

\* A stress profile computed, with I > 0, from a profile with a negative moment
\* that is the largest in size.
C5_Witness ==
    /\ ~dirty /\ Lt(Zero, divisors.I)
    /\ \E i \in 1..Len(M) : /\ Lt(M[i], Zero)
                             /\ sigma_mpa[i] = max_sigma
                             /\ Lt(Zero, sigma_mpa[i])
    /\ \E i \in 1..Len(sigma_mpa) : sigma_mpa[i] # max_sigma

\* C6: the sampled positions of the last run are n >= 2 positions (n the sample
\* count read), from 0 to L, each L / (n - 1) after the one before.
C6_UniformSampling ==
    /\ Len(x) >= 2
    /\ ~dirty => Len(x) = npts
    /\ x[1] = Zero
    /\ x[Len(x)] = call.L
    /\ LET spacing == Div(call.L, Q(Len(x) - 1))
       IN \A i \in 1..(Len(x) - 1) :
             /\ Lt(x[i], x[i + 1])
             /\ Sub(x[i + 1], x[i]) = spacing

\* A run with the smallest sample count and the shortest span.
C6_Witness ==
    /\ ~dirty /\ npts = NptsMin /\ Len(x) = NptsMin
    /\ L = LRange.lo /\ call.L = L

\* C7: no run divides by zero: L # 0, I > 0, and max|M| > 0 where it is a divisor;
\* and no result is infinite or undefined.
C7_NoDivisionByZero ==
    /\ divisors.L # Zero
    /\ Lt(Zero, divisors.I)
    /\ \A i \in 1..Len(divisors.maxM) : Lt(Zero, divisors.maxM[i])
    /\ IsFinite(max_sigma)
    /\ \A i \in 1..Len(sigma_mpa) : IsFinite(sigma_mpa[i])

\* The controls hold the values __init__ gave them.
AtDefaults ==
    /\ L = LDefault /\ P = PDefault /\ a = aDefault /\ w = wDefault
    /\ b = bDefault /\ h = hDefault /\ npts = NptsDefault

\* C8: a run of update_plot that follows a run with no edit in between changes
\* neither the results nor any control; and whatever the runs before it, a run
\* with the controls back at their defaults gives RA = RB = 25 kN and a finite stress.
C8_Idempotent ==
    [][/\ (~dirty /\ ~dirty') => UNCHANGED <<controls, results>>
       /\ (~dirty' /\ AtDefaults') =>
              /\ RA' = Dec(25, 3) /\ RB' = Dec(25, 3)
              /\ IsFinite(max_sigma') /\ Len(M') = NptsDefault]_vars

\* The state after a run that clamped an entered a = 7.00 to the span, from which
\* the second run starts.
C8_Witness ==
    /\ ~dirty /\ edits > 0
    /\ a = L /\ L = LDefault /\ call.a = LDefault

C10_Frame ==
    [][~dirty' => /\ UNCHANGED <<L, P, w, b, h, npts, tube_r, show_deformed, def_scale>>
                  /\ a' = (IF Lt(L, a) THEN L ELSE a)
                  /\ Leq(a', a)]_vars

\* a was lowered to the shortest span by a run, the span was raised again, and the
\* next run left a where it was.
C10_Witness ==
    /\ ~dirty /\ edits = 2
    /\ L = LDefault /\ a = LRange.lo /\ call.a = a

====
